---- MODULE Spec2Model ----
(***************************************************************************)
(* The Sushify mitmproxy interceptor (src/src/lib/proxy/interceptor.py):   *)
(* module load, the three hooks the proxy engine calls for a flow          *)
(* (request, then response or error), the capture gate, the classifier,    *)
(* the exchange assembler and the delivery client.                         *)
(*                                                                         *)
(* A Python function becomes an operator whose value is the SET of its     *)
(* possible executions: the collaborators it calls (log file, wall clock,  *)
(* dashboard server) answer nondeterministically.  An execution is a       *)
(* record                                                                  *)
(*    exc   "none", or the name of the exception that left the function    *)
(*    ret   the returned value (None is <<>>, an optional x is <<x>>)      *)
(*    log   the lines written to interceptor.log, as <<level, message>>    *)
(*    gets  the GETs sent to the status endpoint                           *)
(*    posts the records POSTed to the exchanges endpoint                   *)
(*    steps the pipeline steps run, as <<step, result>>                    *)
(***************************************************************************)
EXTENDS Integers, Sequences, FiniteSets, TLC

VARIABLES
    environ,       \* os.environ as read at import time
    module,        \* "init", "loaded" or "failed": the import of interceptor.py
    AI_BASE_URLS,  \* the module global of line 52/54/56
    capturing,     \* the dashboard's capture toggle (remote state)
    flow,          \* the engine's flow objects
    hist           \* per flow: the executions of the hooks called for it

vars == <<environ, module, AI_BASE_URLS, capturing, flow, hist>>

(***************************************************************************)
(* Bounds.                                                                 *)
(***************************************************************************)
MaxClock == 2

\* The flow objects the engine has open at a time.
Flows == {"flow1"}
\* Wall clock readings, in half milliseconds.
Clock == 0..MaxClock

None == <<>>
Some(x) == <<x>>

(***************************************************************************)
(* Strings.                                                                *)
(***************************************************************************)
StartsWith(s, p) == Len(p) <= Len(s) /\ SubSeq(s, 1, Len(p)) = p

Contains(s, sub) ==
    \E i \in 1..(Len(s) - Len(sub) + 1) : SubSeq(s, i, i + Len(sub) - 1) = sub

UpperLetters == "ABCDEFGHIJKLMNOPQRSTUVWXYZ"
LowerLetters == "abcdefghijklmnopqrstuvwxyz"

LowerChar(c) ==
    IF \E i \in 1..Len(UpperLetters) : SubSeq(UpperLetters, i, i) = c
    THEN LET i == CHOOSE j \in 1..Len(UpperLetters) : SubSeq(UpperLetters, j, j) = c
         IN SubSeq(LowerLetters, i, i)
    ELSE c

RECURSIVE Lower(_)
Lower(s) ==
    IF Len(s) = 0 THEN ""
    ELSE LowerChar(SubSeq(s, 1, 1)) \o Lower(SubSeq(s, 2, Len(s)))

(***************************************************************************)
(* Executions.                                                             *)
(***************************************************************************)
Ok(r) ==
    [exc |-> "none", ret |-> r, log |-> <<>>, gets |-> 0, posts |-> <<>>, steps |-> <<>>]

Raise(e, r) ==
    [exc |-> e, ret |-> r, log |-> <<>>, gets |-> 0, posts |-> <<>>, steps |-> <<>>]

\* b runs after a: a's effects, then b's effects and b's result.
Then(a, b) ==
    [exc |-> b.exc, ret |-> b.ret, log |-> a.log \o b.log, gets |-> a.gets + b.gets,
     posts |-> a.posts \o b.posts, steps |-> a.steps \o b.steps]

\* The same execution, seen by a caller whose own result is r.
As(a, r) == [a EXCEPT !.ret = r]

Step(name, result) == [Ok(None) EXCEPT !.steps = <<<<name, result>>>>]

(***************************************************************************)
(* Lines 24-29.  open(INTERCEPTOR_LOG, "a") and f.write can raise OSError. *)
(***************************************************************************)
log_message(level, message) ==
    { [Ok(None) EXCEPT !.log = <<<<level, message>>>>], Raise("OSError", None) }

time_time == Clock

(***************************************************************************)
(* Lines 18-20 and 48: the environment at import.                          *)
(***************************************************************************)
SessionDirs == {None, Some(""), Some("/tmp/session")}
ProviderOverrides ==
    {None, Some(""), Some("https://httpbin.org"), Some("https://api.openai.com/v1"),
     Some("httpbin.org"), Some("example.com")}

DEFAULT_AI_BASE_URLS ==
    <<"https://api.openai.com", "https://api.anthropic.com",
      "https://generativelanguage.googleapis.com">>

\* Python truth value of an optional string (None and "" are falsy).
Truthy(opt) == opt # None /\ opt[1] # ""

\* A loader that adds the override to the defaults.
LoadBaseUrls_extend(CUSTOM_LLM_PROVIDER) ==
    IF Truthy(CUSTOM_LLM_PROVIDER)
    THEN <<CUSTOM_LLM_PROVIDER[1]>> \o DEFAULT_AI_BASE_URLS
    ELSE DEFAULT_AI_BASE_URLS

\* Lines 48-56.
LoadBaseUrls(CUSTOM_LLM_PROVIDER) ==
    IF Truthy(CUSTOM_LLM_PROVIDER)
    THEN IF ~StartsWith(CUSTOM_LLM_PROVIDER[1], "http")
         THEN <<"https://" \o CUSTOM_LLM_PROVIDER[1]>>
         ELSE <<CUSTOM_LLM_PROVIDER[1]>>
    ELSE DEFAULT_AI_BASE_URLS

\* Lines 18-56: the module body.  ret is the AI_BASE_URLS it binds.
\* The module body without the check of lines 19-20.
ModuleBody_unchecked(env) ==
    { IF l.exc # "none" THEN As(l, <<>>)
      ELSE As(l, LoadBaseUrls(env.LLM_PROVIDER_BASE_URL))
      : l \in log_message("INFO", "Interceptor loaded successfully") }

ModuleBody(env) ==
    IF ~Truthy(env.SUSHIFY_SESSION_DIR)
    THEN {Raise("Exception", <<>>)}
    ELSE { IF l.exc # "none" THEN As(l, <<>>)
           ELSE As(l, LoadBaseUrls(env.LLM_PROVIDER_BASE_URL))
           : l \in log_message("INFO", "Interceptor loaded successfully") }

(***************************************************************************)
(* Flows, as the engine hands them to the hooks.                           *)
(***************************************************************************)
Methods == {"GET", "POST", "PUT"}
Hosts == {"api.openai.com", "httpbin.org", "example.com"}

\* A body: the raw bytes, and whether they decode as text.
Bytes(data, decodable) == [data |-> data, decodable |-> decodable]
Contents ==
    {None, Some(Bytes("", TRUE)), Some(Bytes("{}", TRUE)), Some(Bytes("\\xff", FALSE))}

JsonHeaders == <<<<"content-type", "application/json">>>>

MkRequest(method, host, headers, content) ==
    [method |-> method, scheme |-> "https", host |-> host, path |-> "/v1/chat",
     pretty_url |-> "https://" \o host \o "/v1/chat",
     headers |-> headers, content |-> content]

\* The requests the clients send: a request with a body declares its type.
Requests ==
    { MkRequest(m, h, IF c = None THEN <<>> ELSE JsonHeaders, c)
      : m \in Methods, h \in Hosts, c \in Contents }

\* bool(message.content): None and b"" are falsy.
ContentTruthy(content) == content # None /\ content[1].data # ""

\* message.text of mitmproxy: None without a body, the decoded body, or
\* ValueError when the bytes do not decode.
MessageText(content) ==
    IF content = None THEN Ok(None)
    ELSE IF content[1].decodable THEN Ok(Some(content[1].data))
    ELSE Raise("ValueError", None)

\* dict(headers): one entry per name, the last value winning.
HeaderDict(headers) ==
    [k \in {headers[i][1] : i \in DOMAIN headers} |->
        LET last == CHOOSE i \in DOMAIN headers :
                        /\ headers[i][1] = k
                        /\ \A j \in DOMAIN headers : headers[j][1] = k => j <= i
        IN headers[last][2]]

NewFlow == [pc |-> "new", request |-> None, metadata |-> None,
            response |-> None, error |-> None]

(***************************************************************************)
(* Lines 135-144 and 127-133: the flow classifier.                         *)
(***************************************************************************)
matches_ai_base_url(request) ==
    \E i \in DOMAIN AI_BASE_URLS : StartsWith(request.pretty_url, AI_BASE_URLS[i])

\* A classifier that forgets the method test.
should_capture_request_any_method(request) ==
    matches_ai_base_url(request) /\ ContentTruthy(request.content)

\* A classifier that also takes PUT.
should_capture_request_put(request) ==
    /\ matches_ai_base_url(request)
    /\ request.method \in {"POST", "PUT"}
    /\ ContentTruthy(request.content)

should_capture_request(request) ==
    IF /\ matches_ai_base_url(request)
       /\ request.method = "POST"
       /\ ContentTruthy(request.content)
    THEN TRUE
    ELSE FALSE

(***************************************************************************)
(* Lines 146-152.                                                          *)
(***************************************************************************)
get_safe_body(text) ==
    IF text = None \/ text[1] = "" THEN "" ELSE text[1]

(***************************************************************************)
(* Lines 154-167: the capture gate.  What requests.get and the lines after *)
(* it meet at the status endpoint:                                         *)
(*   "RequestException"  connection failure or timeout                     *)
(*   "non200"            a status other than 200                           *)
(*   "nonjson"           200, the body is not JSON: response.json() raises *)
(*                       JSONDecodeError, a RequestException in requests   *)
(*                       >= 2.27 and a plain ValueError before             *)
(*   "nonobject"         200, JSON that is no object: data.get raises      *)
(*                       AttributeError                                    *)
(*   "nofield"           200, an object without "capturing"                *)
(*   "toggle"            200, {"capturing": <the dashboard's toggle>}      *)
(***************************************************************************)
StatusReplies == {"RequestException", "non200", "nonjson", "nonobject", "nofield", "toggle"}

\* Lines 164-167: except Exception, log, fall through to return False.
CaptureCheckFailed ==
    { As(l, FALSE) : l \in log_message("WARN", "Error checking capture status") }

\* The reply as the trace names it: a well-formed reply carries the toggle.
Observed(reply) ==
    IF reply # "toggle" THEN reply
    ELSE IF capturing THEN "capturing=true" ELSE "capturing=false"

\* A gate that fails open when the dashboard cannot be reached.
is_capture_enabled_on_fail_open(reply) ==
    LET get == [Ok(FALSE) EXCEPT !.gets = 1, !.steps = <<<<"status", Observed(reply)>>>>]
    IN { Then(get, Ok(IF reply = "toggle" THEN capturing ELSE TRUE)) }

is_capture_enabled_on(reply) ==
    LET get == [Ok(FALSE) EXCEPT !.gets = 1, !.steps = <<<<"status", Observed(reply)>>>>]
        outcomes ==
            CASE reply = "RequestException" -> {Ok(FALSE)}
              [] reply = "non200" -> {Ok(FALSE)}
              [] reply = "nonjson" -> {Ok(FALSE)} \cup CaptureCheckFailed
              [] reply = "nonobject" -> CaptureCheckFailed
              [] reply = "nofield" -> {Ok(FALSE)}
              [] reply = "toggle" -> {Ok(capturing)}
    IN { Then(get, o) : o \in outcomes }

is_capture_enabled == UNION { is_capture_enabled_on(reply) : reply \in StatusReplies }

(***************************************************************************)
(* Lines 76-78: is_capture_enabled() and should_capture_request(...).      *)
(***************************************************************************)
\* should_capture_flow with the operands of the "and" exchanged.
should_capture_flow_classifier_first(fl) ==
    LET c == should_capture_request(fl.request[1])
        cs == Step("classifier", IF c THEN "true" ELSE "false")
    IN IF ~c THEN {As(cs, FALSE)}
       ELSE { IF g.exc # "none"
              THEN [Then(cs, g) EXCEPT !.steps = @ \o <<<<"gate", "raised">>>>]
              ELSE As(Then(Then(cs, g), Step("gate", IF g.ret THEN "true" ELSE "false")),
                      g.ret)
              : g \in is_capture_enabled }

should_capture_flow(fl) ==
    { IF g.exc # "none" THEN [g EXCEPT !.steps = @ \o <<<<"gate", "raised">>>>]
      ELSE IF ~g.ret THEN As(Then(g, Step("gate", "false")), FALSE)
      ELSE LET c == should_capture_request(fl.request[1])
           IN As(Then(Then(g, Step("gate", "true")),
                      Step("classifier", IF c THEN "true" ELSE "false")), c)
      : g \in is_capture_enabled }

(***************************************************************************)
(* Lines 80-97: the base of an exchange record.                            *)
(***************************************************************************)
\* int(x * 1000) of a duration of d half milliseconds: truncation towards 0.
IntMs(d) == IF d >= 0 THEN d \div 2 ELSE -((-d) \div 2)

\* time.strftime('%Y-%m-%d %H:%M:%S') of a reading: whole seconds.
StrfTime(t) == t \div 2000

\* hash(url) % 10000, a low-cardinality digest of the URL.
UrlHash(url) == Len(url) % 10000

\* create_exchange_base with the start time kept in one place for all flows.
create_exchange_base_shared_start(fl) ==
    LET req == fl.request[1]
        text == MessageText(req.content)
        started == { g \in DOMAIN flow : flow[g].metadata # None }
        starts == IF started = {} THEN time_time
                  ELSE { flow[g].metadata[1] : g \in started }
    IN IF text.exc # "none" THEN {Then(Step("base", "raised"), As(text, None))}
       ELSE { As(Step("base", "returned"),
                 [id |-> <<"exchange", IntMs(t3), UrlHash(req.pretty_url)>>,
                  timestamp |-> t4,
                  url |-> req.pretty_url,
                  method |-> req.method,
                  host |-> req.host,
                  path |-> req.path,
                  scheme |-> req.scheme,
                  request_headers |-> HeaderDict(req.headers),
                  request_body |-> get_safe_body(text.ret),
                  latency_ms |-> IntMs(t2 - start_time),
                  captured_at |-> StrfTime(t5)])
              : start_time \in starts, t2 \in time_time, t3 \in time_time,
                t4 \in time_time, t5 \in time_time }

create_exchange_base(fl) ==
    LET req == fl.request[1]
        text == MessageText(req.content)
        starts == IF fl.metadata = None THEN time_time ELSE {fl.metadata[1]}
    IN IF text.exc # "none" THEN {Then(Step("base", "raised"), As(text, None))}
       ELSE { As(Step("base", "returned"),
                 [id |-> <<"exchange", IntMs(t3), UrlHash(req.pretty_url)>>,
                  timestamp |-> t4,
                  url |-> req.pretty_url,
                  method |-> req.method,
                  host |-> req.host,
                  path |-> req.path,
                  scheme |-> req.scheme,
                  request_headers |-> HeaderDict(req.headers),
                  request_body |-> get_safe_body(text.ret),
                  latency_ms |-> IntMs(t2 - start_time),
                  captured_at |-> StrfTime(t5)])
              : start_time \in starts, t2 \in time_time, t3 \in time_time,
                t4 \in time_time, t5 \in time_time }

(***************************************************************************)
(* Lines 169-186: the delivery client.  What requests.post meets:          *)
(*   "200", "non200", "RequestException", or any other exception.          *)
(***************************************************************************)
PostReplies == {"200", "non200", "RequestException", "Exception"}

send_exchange_to_server_on(exchange, reply) ==
    LET post == [Ok(None) EXCEPT !.posts = <<exchange>>, !.steps = <<<<"delivery", reply>>>>]
        \* Lines 185-186.
        unexpected == log_message("ERROR", "Unexpected error sending exchange")
        outcomes ==
            CASE reply = "200" -> {Ok(None)}
              [] reply = "non200" ->
                   UNION { IF w.exc = "none" THEN {w} ELSE { Then(w, u) : u \in unexpected }
                           : w \in log_message("WARN", "Server returned non-200") }
              [] reply = "RequestException" ->
                   log_message("ERROR", "Failed to send exchange to server")
              [] reply = "Exception" -> unexpected
    IN { Then(Then(post, Step("send", IF o.exc = "none" THEN "returned" ELSE "raised")), o)
         : o \in outcomes }

send_exchange_to_server(exchange) ==
    UNION { send_exchange_to_server_on(exchange, reply) : reply \in PostReplies }

(***************************************************************************)
(* Lines 188-202.                                                          *)
(***************************************************************************)
\* get_error_description with the SSL test ahead of the timeout test.
get_error_description_ssl_first(error_str) ==
    LET low == Lower(error_str)
    IN IF Contains(low, "ssl") \/ Contains(low, "certificate")
       THEN "SSL/Certificate error"
       ELSE IF Contains(low, "timeout") THEN "Request timed out"
       ELSE IF Contains(low, "connection refused") THEN "Connection refused"
       ELSE IF Contains(low, "dns") \/ Contains(low, "name resolution")
            THEN "DNS resolution failed"
       ELSE IF Contains(low, "connection reset") THEN "Connection reset"
       ELSE "Network error: " \o error_str

get_error_description(error_str) ==
    LET low == Lower(error_str)
    IN IF Contains(low, "timeout") THEN "Request timed out"
       ELSE IF Contains(low, "connection refused") THEN "Connection refused"
       ELSE IF Contains(low, "ssl") \/ Contains(low, "certificate")
            THEN "SSL/Certificate error"
       ELSE IF Contains(low, "dns") \/ Contains(low, "name resolution")
            THEN "DNS resolution failed"
       ELSE IF Contains(low, "connection reset") THEN "Connection reset"
       ELSE "Network error: " \o error_str

(***************************************************************************)
(* try: body / except Exception: two log lines (122-124, 228-230).  An     *)
(* exception raised by the handler's own log_message leaves the hook.      *)
(***************************************************************************)
ExceptHandler(message) ==
    UNION { IF l1.exc # "none" THEN {l1}
            ELSE { Then(l1, l2) : l2 \in log_message("DEBUG", "Full traceback") }
            : l1 \in log_message("ERROR", message) }

TryExcept(body, message) ==
    UNION { IF b.exc = "none" THEN {b}
            ELSE { Then([b EXCEPT !.exc = "none"], h) : h \in ExceptHandler(message) }
            : b \in body }

(***************************************************************************)
(* Lines 60-74: the request hook.  The ret of a hook is the flow object as *)
(* the hook leaves it.                                                     *)
(***************************************************************************)
request(fl) ==
    LET req == fl.request[1]
        \* Lines 65-71.
        body_log ==
            IF ContentTruthy(req.content)
            THEN IF req.content[1].decodable
                 THEN log_message("DEBUG", "Request body: chars")
                 ELSE log_message("DEBUG", "Request body: bytes (binary)")
            ELSE {Ok(None)}
    IN UNION { IF l1.exc # "none" THEN {As(l1, fl)}
               ELSE UNION { IF l2.exc # "none" THEN {As(Then(l1, l2), fl)}
                            ELSE { As(Then(l1, l2), [fl EXCEPT !.metadata = Some(t)])
                                   : t \in time_time }
                            : l2 \in body_log }
               : l1 \in log_message("DEBUG", "Request intercepted") }

\* Lines 108-114 / 213-220: the base record has been completed with the
\* outcome's fields.
Assembled(base) == Then(As(base, None), Step("assembler", "done"))

(***************************************************************************)
(* Lines 99-125: the response hook.                                        *)
(***************************************************************************)
\* Lines 109-120, once should_capture_flow returned true.
response_capture(fl) ==
    LET text == MessageText(fl.response[1].content)
    IN UNION {
         IF base.exc # "none" THEN {base}
         ELSE IF text.exc # "none" THEN {Then(base, text)}
         ELSE LET exchange ==
                    [response_status |-> Some(fl.response[1].status_code),
                     response_headers |-> HeaderDict(fl.response[1].headers),
                     response_body |-> get_safe_body(text.ret)] @@ base.ret
              IN UNION { IF s.exc # "none" THEN {Then(Assembled(base), s)}
                         ELSE { Then(Then(Assembled(base), s), l)
                                : l \in log_message("INFO", "Exchange captured") }
                         : s \in send_exchange_to_server(exchange) }
         : base \in create_exchange_base(fl) }

response_try(fl) ==
    UNION { IF g.exc # "none" THEN {As(g, None)}
            ELSE IF ~g.ret
            THEN { Then(As(g, None), l) : l \in log_message("DEBUG", "Skipping response") }
            ELSE { Then(As(g, None), c) : c \in response_capture(fl) }
            : g \in should_capture_flow(fl) }

\* response that drops the start time from the metadata once it is done.
response_pops_start_time(fl) ==
    UNION { IF l.exc # "none" THEN {As(l, fl)}
            ELSE { As(Then(l, b), [fl EXCEPT !.metadata = None])
                   : b \in TryExcept(response_try(fl), "Error in interceptor") }
            : l \in log_message("DEBUG", "Response received") }

response(fl) ==
    UNION { IF l.exc # "none" THEN {As(l, fl)}
            ELSE { As(Then(l, b), fl)
                   : b \in TryExcept(response_try(fl), "Error in interceptor") }
            : l \in log_message("DEBUG", "Response received") }

(***************************************************************************)
(* Lines 204-230: the error hook.                                          *)
(***************************************************************************)
\* error_capture with the request body left out of the error record.
error_capture_no_body(fl, error_desc) ==
    UNION {
         IF base.exc # "none" THEN {base}
         ELSE LET exchange ==
                    [response_status |-> None,
                     response_headers |-> HeaderDict(<<>>),
                     response_body |-> error_desc,
                     error_details |-> fl.error[1]]
                    @@ [base.ret EXCEPT !.request_body = ""]
              IN UNION { IF s.exc # "none" THEN {Then(Assembled(base), s)}
                         ELSE { Then(Then(Assembled(base), s), l)
                                : l \in log_message("INFO", "Error exchange captured") }
                         : s \in send_exchange_to_server(exchange) }
         : base \in create_exchange_base(fl) }

\* Lines 214-226, once should_capture_flow returned true.
error_capture(fl, error_desc) ==
    UNION {
         IF base.exc # "none" THEN {base}
         ELSE LET exchange ==
                    [response_status |-> None,
                     response_headers |-> HeaderDict(<<>>),
                     response_body |-> error_desc,
                     error_details |-> fl.error[1]] @@ base.ret
              IN UNION { IF s.exc # "none" THEN {Then(Assembled(base), s)}
                         ELSE { Then(Then(Assembled(base), s), l)
                                : l \in log_message("INFO", "Error exchange captured") }
                         : s \in send_exchange_to_server(exchange) }
         : base \in create_exchange_base(fl) }

error_try(fl, error_desc) ==
    UNION { IF g.exc # "none" THEN {As(g, None)}
            ELSE IF ~g.ret THEN {As(g, None)}
            ELSE { Then(As(g, None), c) : c \in error_capture(fl, error_desc) }
            : g \in should_capture_flow(fl) }

error(fl) ==
    UNION { IF l.exc # "none" THEN {As(l, fl)}
            ELSE { As(Then(l, b), fl)
                   : b \in TryExcept(error_try(fl, error_desc), "Error in error handler") }
            : l \in log_message("WARN", "Request error"),
              error_desc \in {get_error_description(fl.error[1])} }

(***************************************************************************)
(* The engine and the world around the hooks.                              *)
(***************************************************************************)
MkResponse(status_code, headers, content) ==
    [status_code |-> status_code, headers |-> headers, content |-> content]

Responses ==
    { MkResponse(200, JsonHeaders, Some(Bytes("{}", TRUE))),
      MkResponse(401, <<>>, None),
      MkResponse(200, JsonHeaders, Some(Bytes("\\xff", FALSE))) }

ErrorTexts == {"Operation Timeout", "SSL handshake timeout", "peer closed"}

\* A hook call as the history keeps it: the flow as the engine passed it and
\* what the call did.
Called(hook, arg, e) == [hook |-> hook, arg |-> arg, exec |-> As(e, None)]

Init ==
    /\ environ \in [SUSHIFY_SESSION_DIR : SessionDirs, LLM_PROVIDER_BASE_URL : ProviderOverrides]
    /\ module = "init"
    /\ AI_BASE_URLS = <<>>
    /\ capturing \in BOOLEAN
    /\ flow = [f \in Flows |-> NewFlow]
    /\ hist = [f \in Flows |-> <<>>]

\* The engine imports the script (lines 18-56).
Load ==
    /\ module = "init"
    /\ \E e \in ModuleBody(environ) :
         /\ module' = IF e.exc = "none" THEN "loaded" ELSE "failed"
         /\ AI_BASE_URLS' = e.ret
    /\ UNCHANGED <<environ, capturing, flow, hist>>

\* A client request (one of reqs) reaches the proxy: the engine calls
\* request(flow).
RequestOf(f, reqs) ==
    /\ module = "loaded"
    /\ flow[f].pc = "new"
    /\ \E req \in reqs :
         LET fl == [flow[f] EXCEPT !.request = Some(req)]
         IN \E e \in request(fl) :
              /\ flow' = [flow EXCEPT ![f] = [e.ret EXCEPT !.pc = "requested"]]
              /\ hist' = [hist EXCEPT ![f] = Append(@, Called("request", fl, e))]
    /\ UNCHANGED <<environ, module, AI_BASE_URLS, capturing>>

Request(f) == RequestOf(f, Requests)

\* The origin server answered (one of resps): the engine calls
\* response(flow).
ResponseOf(f, resps) ==
    /\ module = "loaded"
    /\ flow[f].pc = "requested"
    /\ \E resp \in resps :
         LET fl == [flow[f] EXCEPT !.response = Some(resp)]
         IN \E e \in response(fl) :
              /\ flow' = [flow EXCEPT ![f] = [e.ret EXCEPT !.pc = "done"]]
              /\ hist' = [hist EXCEPT ![f] = Append(@, Called("response", fl, e))]
    /\ UNCHANGED <<environ, module, AI_BASE_URLS, capturing>>

Response(f) == ResponseOf(f, Responses)

\* The exchange failed in transport (with one of texts): the engine calls
\* error(flow).
ErrorOf(f, texts) ==
    /\ module = "loaded"
    /\ flow[f].pc = "requested"
    /\ \E err \in texts :
         LET fl == [flow[f] EXCEPT !.error = Some(err)]
         IN \E e \in error(fl) :
              /\ flow' = [flow EXCEPT ![f] = [e.ret EXCEPT !.pc = "done"]]
              /\ hist' = [hist EXCEPT ![f] = Append(@, Called("error", fl, e))]
    /\ UNCHANGED <<environ, module, AI_BASE_URLS, capturing>>

Error(f) == ErrorOf(f, ErrorTexts)

\* The engine drops a finished flow; the slot serves the next exchange.
Recycle(f) ==
    /\ flow[f].pc = "done"
    /\ flow' = [flow EXCEPT ![f] = NewFlow]
    /\ hist' = [hist EXCEPT ![f] = <<>>]
    /\ UNCHANGED <<environ, module, AI_BASE_URLS, capturing>>

\* The dashboard user switches capture mode.
Toggle ==
    /\ capturing' = ~capturing
    /\ UNCHANGED <<environ, module, AI_BASE_URLS, flow, hist>>

Next ==
    \/ Load
    \/ \E f \in DOMAIN flow : Request(f)
    \/ \E f \in DOMAIN flow : Response(f)
    \/ \E f \in DOMAIN flow : Error(f)
    \/ \E f \in DOMAIN flow : Recycle(f)
    \/ Toggle

Spec == Init /\ [][Next]_vars

(***************************************************************************)
(* Reading the history.                                                    *)
(***************************************************************************)
Done(f) == flow[f].pc = "done"

\* The execution of the outcome hook (response or error) of a finished flow.
Outcome(f) == hist[f][Len(hist[f])]

HasStep(e, name, result) == \E i \in DOMAIN e.steps : e.steps[i] = <<name, result>>

Logged(e, level, message) == \E i \in DOMAIN e.log : e.log[i] = <<level, message>>

Loaded == module = "loaded"

\* The property the classifier is meant to compute, from the request alone.
UnderBaseUrl(req) ==
    \E i \in DOMAIN AI_BASE_URLS : StartsWith(req.pretty_url, AI_BASE_URLS[i])

NonEmptyBody(req) == req.content # None /\ req.content[1].data # ""

\* The requests of the flows the engine has handed to the request hook.
Seen == { flow[f].request[1] : f \in { g \in DOMAIN flow : flow[g].request # None } }

(***************************************************************************)
(* C1.  should_capture_request is false for a URL under no configured base *)
(* URL, false for GET, false for an empty or absent body, and true for a   *)
(* POST with a non-empty body under a configured base URL.                 *)
(***************************************************************************)
C1_Classifier ==
    Loaded =>
      \A req \in Seen :
        /\ ~UnderBaseUrl(req) => should_capture_request(req) = FALSE
        /\ req.method = "GET" => should_capture_request(req) = FALSE
        /\ ~NonEmptyBody(req) => should_capture_request(req) = FALSE
        /\ (UnderBaseUrl(req) /\ req.method = "POST" /\ NonEmptyBody(req))
              => should_capture_request(req) = TRUE

C1_Witness ==
    \E f \in DOMAIN flow :
      /\ Done(f)
      /\ HasStep(Outcome(f).exec, "classifier", "true")
      /\ flow[f].request[1].method = "POST"
      /\ UnderBaseUrl(flow[f].request[1])
      /\ NonEmptyBody(flow[f].request[1])

(***************************************************************************)
(* C2.  A flow whose outcome hook ran got exactly one delivery POST if the *)
(* gate returned true and the request is classifier-eligible, and none     *)
(* otherwise, on the response path and on the error path alike.            *)
(***************************************************************************)
C2_ExactlyOneDelivery ==
    \A f \in DOMAIN flow :
      Done(f) =>
        LET e == Outcome(f).exec
            qualifies == /\ HasStep(e, "gate", "true")
                         /\ should_capture_request(flow[f].request[1])
        IN Len(e.posts) = IF qualifies THEN 1 ELSE 0

(***************************************************************************)
(* C3.  When the status check fails (transport error or timeout, non-200,  *)
(* malformed body) the hook makes no delivery POST, whatever the request,  *)
(* on the response path and on the error path.                             *)
(***************************************************************************)
FailedChecks == {"RequestException", "non200", "nonjson", "nonobject"}

C3_NoDeliveryOnFailedCheck ==
    \A f \in DOMAIN flow :
      Done(f) =>
        LET e == Outcome(f).exec
        IN (\E r \in FailedChecks : HasStep(e, "status", r)) => e.posts = <<>>

C3_Witness ==
    \E f \in DOMAIN flow :
      /\ Done(f)
      /\ Outcome(f).hook = "error"
      /\ HasStep(Outcome(f).exec, "status", "RequestException")
      /\ capturing
      /\ should_capture_request(flow[f].request[1])
      /\ flow[f].request[1].content[1].decodable
      /\ Outcome(f).exec.posts = <<>>

(***************************************************************************)
(* C4.  No hook lets an exception reach the engine.                        *)
(***************************************************************************)
C4_HooksNeverRaise ==
    \A f \in DOMAIN flow :
      \A i \in DOMAIN hist[f] : hist[f][i].exec.exc = "none"

(***************************************************************************)
(* C5.  is_capture_enabled never lets an error out, returns false on a     *)
(* transport failure, a non-200 status, a malformed body and a payload     *)
(* without "capturing", and returns true only for a 200 reply whose        *)
(* payload has capturing = true.                                           *)
(***************************************************************************)
C5_FailClosed ==
    \A f \in DOMAIN flow :
      Done(f) =>
        LET e == Outcome(f).exec
        IN /\ ~HasStep(e, "gate", "raised")
           /\ (\E r \in FailedChecks \cup {"nofield", "capturing=false"} :
                  HasStep(e, "status", r)) => HasStep(e, "gate", "false")
           /\ HasStep(e, "gate", "true") <=> HasStep(e, "status", "capturing=true")

(***************************************************************************)
(* C6.  A delivery that meets a non-200 status, a transport failure or any *)
(* other exception is logged (WARN for non-200, ERROR otherwise), is not   *)
(* retried, and send_exchange_to_server returns to the hook.               *)
(***************************************************************************)
C6_DeliveryFailureContained ==
    \A f \in DOMAIN flow :
      Done(f) =>
        LET e == Outcome(f).exec
        IN \A r \in {"non200", "RequestException", "Exception"} :
             HasStep(e, "delivery", r) =>
               /\ Len(e.posts) = 1
               /\ HasStep(e, "send", "returned")
               /\ r = "non200" => Logged(e, "WARN", "Server returned non-200")
               /\ r = "RequestException"
                     => Logged(e, "ERROR", "Failed to send exchange to server")
               /\ r = "Exception"
                     => Logged(e, "ERROR", "Unexpected error sending exchange")

(***************************************************************************)
(* C7.  A provider override replaces the default list: with an override    *)
(* unrelated to a default base URL, no URL under that default matches, and *)
(* every URL that matches starts with the override (as given, or with the  *)
(* scheme the loader put in front of it).                                  *)
(***************************************************************************)
Unrelated(a, b) == ~StartsWith(a, b) /\ ~StartsWith(b, a)

C7_OverrideReplaces ==
    (Loaded /\ Truthy(environ.LLM_PROVIDER_BASE_URL)) =>
      LET o == environ.LLM_PROVIDER_BASE_URL[1]
      IN \A req \in Seen :
           /\ matches_ai_base_url(req)
                => \/ StartsWith(req.pretty_url, o)
                   \/ StartsWith(req.pretty_url, "https://" \o o)
           /\ \A i \in DOMAIN DEFAULT_AI_BASE_URLS :
                LET d == DEFAULT_AI_BASE_URLS[i]
                IN (/\ Unrelated(o, d)
                    /\ Unrelated("https://" \o o, d)
                    /\ StartsWith(req.pretty_url, d)) => ~matches_ai_base_url(req)

C7_Witness ==
    \E f \in DOMAIN flow :
      /\ Done(f)
      /\ environ.LLM_PROVIDER_BASE_URL = Some("https://httpbin.org")
      /\ flow[f].request[1].pretty_url = "https://api.openai.com/v1/chat"
      /\ flow[f].request[1].method = "POST"
      /\ NonEmptyBody(flow[f].request[1])
      /\ HasStep(Outcome(f).exec, "classifier", "false")

(***************************************************************************)
(* C8.  An override that begins with neither "http://" nor "https://"      *)
(* gets "https://" put in front: the match list is <<"https://" + it>>.    *)
(***************************************************************************)
C8_SchemeAssumed ==
    (Loaded /\ Truthy(environ.LLM_PROVIDER_BASE_URL)) =>
      LET o == environ.LLM_PROVIDER_BASE_URL[1]
      IN (~StartsWith(o, "http://") /\ ~StartsWith(o, "https://"))
            => AI_BASE_URLS = <<"https://" \o o>>

(***************************************************************************)
(* C9.  As claimed: a PUT with a non-empty body under a configured base    *)
(* URL qualifies for capture.                                              *)
(***************************************************************************)
C9_PutQualifies ==
    Loaded =>
      \A req \in Seen :
        (UnderBaseUrl(req) /\ req.method = "PUT" /\ NonEmptyBody(req))
           => should_capture_request(req)

(***************************************************************************)
(* C9, amended.  A PUT never qualifies: among the requests with a          *)
(* non-empty body under a configured base URL, exactly the POSTs qualify,  *)
(* and no hook delivers a record for a PUT.                                *)
(***************************************************************************)
C9_OnlyPostQualifies ==
    /\ Loaded =>
         \A req \in Seen :
           /\ req.method = "PUT" => ~should_capture_request(req)
           /\ (UnderBaseUrl(req) /\ NonEmptyBody(req))
                 => (should_capture_request(req) <=> req.method = "POST")
    /\ \A f \in DOMAIN flow :
         (Done(f) /\ flow[f].request[1].method = "PUT") => Outcome(f).exec.posts = <<>>

C9_Witness ==
    \E f \in DOMAIN flow :
      /\ Done(f)
      /\ flow[f].request[1].method = "PUT"
      /\ UnderBaseUrl(flow[f].request[1])
      /\ NonEmptyBody(flow[f].request[1])
      /\ HasStep(Outcome(f).exec, "gate", "true")
      /\ HasStep(Outcome(f).exec, "classifier", "false")
      /\ Outcome(f).exec.posts = <<>>

(***************************************************************************)
(* C10.  An eligible flow that passed the gate and ended in a transport    *)
(* error has exactly one record delivered, with response_status null,      *)
(* empty response_headers, response_body the classification of the error   *)
(* ("Request timed out" for a timeout) and error_details the raw text; a   *)
(* record delivered for a response has the origin's status code and no     *)
(* error_details.                                                          *)
(***************************************************************************)
C10_OutcomeRecord ==
    \A f \in DOMAIN flow :
      Done(f) =>
        LET e == Outcome(f).exec
        IN /\ (/\ Outcome(f).hook = "error"
               /\ HasStep(e, "gate", "true")
               /\ should_capture_request(flow[f].request[1]))
              => /\ Len(e.posts) = 1
                 /\ e.posts[1].response_status = None
                 /\ e.posts[1].response_headers = <<>>
                 /\ e.posts[1].response_body = get_error_description(flow[f].error[1])
                 /\ flow[f].error[1] = "Operation Timeout"
                       => e.posts[1].response_body = "Request timed out"
                 /\ e.posts[1].error_details = flow[f].error[1]
           /\ Outcome(f).hook = "response"
              => \A i \in DOMAIN e.posts :
                   /\ e.posts[i].response_status = Some(flow[f].response[1].status_code)
                   /\ "error_details" \notin DOMAIN e.posts[i]

(***************************************************************************)
(* Helpers of C11..C20.                                                    *)
(***************************************************************************)
Range(q) == { q[i] : i \in DOMAIN q }

BaseFields == {"url", "method", "host", "path", "scheme", "request_headers",
               "request_body"}
OutcomeFields == {"response_status", "response_headers", "response_body",
                  "error_details"}
TimeFields == {"id", "timestamp", "latency_ms", "captured_at"}

BaseOf(r) == [k \in BaseFields |-> r[k]]

\* The records the executions in es hand to the delivery.
Delivered(es) == UNION { Range(e.posts) : e \in es }

\* What the base fields of a record of request req are to be.
BaseOfRequest(req) ==
    [url |-> req.pretty_url, method |-> req.method, host |-> req.host,
     path |-> req.path, scheme |-> req.scheme,
     request_headers |-> HeaderDict(req.headers),
     request_body |-> IF req.content = None THEN "" ELSE req.content[1].data]

(***************************************************************************)
(* C11.  For one and the same request (and start time), the records the    *)
(* response hook delivers on any response and the records the error hook   *)
(* delivers on any error have the same url, method, host, path, scheme,    *)
(* request_headers and request_body, namely those of the request; every    *)
(* other field of a record is a response/error field or a time-derived     *)
(* field.                                                                  *)
(***************************************************************************)
C11_SharedBase ==
    \A f \in DOMAIN flow :
      /\ (Loaded /\ flow[f].pc = "requested") =>
           LET ok == Delivered(UNION { response([flow[f] EXCEPT !.response = Some(resp)])
                                       : resp \in Responses })
               failed == Delivered(UNION { error([flow[f] EXCEPT !.error = Some(err)])
                                           : err \in ErrorTexts })
           IN /\ \A r \in ok \cup failed :
                   /\ BaseFields \subseteq DOMAIN r
                   /\ DOMAIN r \subseteq BaseFields \cup OutcomeFields \cup TimeFields
              /\ \A r1 \in ok : \A r2 \in failed : BaseOf(r1) = BaseOf(r2)
      /\ Done(f) =>
           \A r \in Range(Outcome(f).exec.posts) :
             BaseOf(r) = BaseOfRequest(flow[f].request[1])

\* A request for which both hooks can deliver, and an error record delivered.
C11_Witness ==
    \E f \in DOMAIN flow :
      /\ Done(f)
      /\ Outcome(f).hook = "error"
      /\ Outcome(f).exec.posts # <<>>
      /\ LET fl == [Outcome(f).arg EXCEPT !.error = None]
         IN Delivered(UNION { response([fl EXCEPT !.response = Some(resp)])
                              : resp \in Responses }) # {}

\* The executions of the hook calls made so far on flow f.
Execs(f) == { hist[f][i].exec : i \in DOMAIN hist[f] }

\* The body a record is to carry for message content c.
SafeBodyOf(c) == IF c = None THEN "" ELSE c[1].data

(***************************************************************************)
(* C12.  Record assembly is total: whenever a hook reaches                 *)
(* create_exchange_base (the gate and the classifier returned true), it    *)
(* returns a record and raises nothing, whatever the request body, headers *)
(* and start-time metadata are; a delivered record carries all base        *)
(* fields, request_body is "" for an absent or empty body and the body     *)
(* itself otherwise, and response_body of a response record likewise.      *)
(***************************************************************************)
C12_AssemblyTotal ==
    \A f \in DOMAIN flow :
      \A i \in DOMAIN hist[f] :
        LET e == hist[f][i].exec
        IN /\ HasStep(e, "classifier", "true") => HasStep(e, "base", "returned")
           /\ ~HasStep(e, "base", "raised")
           /\ \A r \in Range(e.posts) :
                /\ BaseFields \cup TimeFields \subseteq DOMAIN r
                /\ r.request_body = SafeBodyOf(flow[f].request[1].content)
                /\ hist[f][i].hook = "response"
                      => r.response_body = SafeBodyOf(flow[f].response[1].content)

(***************************************************************************)
(* C13.  Every record delivered for a flow whose request hook recorded a   *)
(* start time has a latency_ms that is not negative and is the truncated   *)
(* number of milliseconds from that start time to some clock reading,      *)
(* whatever the two readings of the wall clock are.                        *)
(***************************************************************************)
C13_LatencyNonNegative ==
    \A f \in DOMAIN flow :
      (Done(f) /\ flow[f].metadata # None) =>
        \A r \in Range(Outcome(f).exec.posts) :
          /\ r.latency_ms >= 0
          /\ \E t \in Clock : r.latency_ms = IntMs(t - flow[f].metadata[1])

(***************************************************************************)
(* C14.  Every record delivered for a flow that has no start-time metadata *)
(* when its outcome is assembled has latency_ms = 0.                       *)
(***************************************************************************)
C14_MissingStartGivesZero ==
    \A f \in DOMAIN flow :
      (Done(f) /\ flow[f].metadata = None) =>
        \A r \in Range(Outcome(f).exec.posts) : r.latency_ms = 0

(***************************************************************************)
(* C15.  A hook call leaves the flow's request, response and error as the  *)
(* engine passed them and adds no field to the flow; the response and the  *)
(* error hook leave the metadata as well, and the request hook changes it  *)
(* at most by writing the start time.                                      *)
(***************************************************************************)
C15_ExchangeUntouched ==
    \A f \in DOMAIN flow :
      hist[f] # <<>> =>
        LET c == Outcome(f)
        IN /\ DOMAIN flow[f] = DOMAIN c.arg
           /\ flow[f].request = c.arg.request
           /\ flow[f].response = c.arg.response
           /\ flow[f].error = c.arg.error
           /\ c.hook \in {"response", "error"} => flow[f].metadata = c.arg.metadata
           /\ c.hook = "request"
                => \/ flow[f].metadata = c.arg.metadata
                   \/ \E t \in Clock : flow[f].metadata = Some(t)

\* A response hook that ran to the delivery on a flow with a start time.
C15_Witness ==
    \E f \in DOMAIN flow :
      /\ Done(f)
      /\ Outcome(f).hook = "response"
      /\ Outcome(f).exec.posts # <<>>
      /\ flow[f].metadata # None

(***************************************************************************)
(* C16.  When SUSHIFY_SESSION_DIR is absent or empty the module never      *)
(* becomes loaded: its import fails, no base URL list is set, and no hook  *)
(* has run on any flow, so no status check was issued and no record was    *)
(* delivered.                                                              *)
(***************************************************************************)
C16_FatalAtStartup ==
    ~Truthy(environ.SUSHIFY_SESSION_DIR) =>
      /\ module \in {"init", "failed"}
      /\ AI_BASE_URLS = <<>>
      /\ \A e \in ModuleBody(environ) :
           e.exc = "Exception" /\ e.log = <<>> /\ e.gets = 0 /\ e.posts = <<>>
      /\ \A f \in DOMAIN flow : hist[f] = <<>> /\ flow[f] = NewFlow

\* The import has failed for want of the session directory.
C16_Witness ==
    /\ ~Truthy(environ.SUSHIFY_SESSION_DIR)
    /\ module = "failed"

(***************************************************************************)
(* The error classifier on texts with every combination of markers.        *)
(***************************************************************************)
\* The markers of lines 191-200 as an error text may spell them, in the
\* order of the tests, and the class each belongs to.
Markers == <<"TimeOut", "Connection Refused", "SSL", "Certificate", "DNS",
             "Name Resolution", "Connection Reset">>
ClassOfMarker == <<1, 2, 3, 3, 4, 4, 5>>
Descriptions == <<"Request timed out", "Connection refused", "SSL/Certificate error",
                  "DNS resolution failed", "Connection reset">>

Min(S) == CHOOSE x \in S : \A y \in S : x <= y
Max(S) == CHOOSE x \in S : \A y \in S : x >= y

\* The markers with index in S, in ascending or descending order of index.
RECURSIVE JoinMarkers(_, _)
JoinMarkers(S, ascending) ==
    LET m == IF ascending THEN Min(S) ELSE Max(S)
    IN IF S = {m} THEN Markers[m]
       ELSE Markers[m] \o "; " \o JoinMarkers(S \ {m}, ascending)

MarkerText(S, ascending) ==
    IF S = {} THEN "peer closed" ELSE JoinMarkers(S, ascending)

\* Each text with the set of markers it was made of.
MarkerTable ==
    { <<MarkerText(S, ascending), S>> : S \in SUBSET DOMAIN Markers,
                                        ascending \in BOOLEAN }
MarkerTexts == { p[1] : p \in MarkerTable }

\* What a text made of the markers in S is to be described as.
DescriptionOf(S, text) ==
    IF S = {} THEN "Network error: " \o text
    ELSE Descriptions[Min({ ClassOfMarker[i] : i \in S })]

\* One capturable request.
ErrorRequests ==
    { MkRequest("POST", "api.openai.com", JsonHeaders, Some(Bytes("{}", TRUE))) }

InitErrors ==
    /\ environ = [SUSHIFY_SESSION_DIR |-> Some("/tmp/session"),
                  LLM_PROVIDER_BASE_URL |-> None]
    /\ module = "init"
    /\ AI_BASE_URLS = <<>>
    /\ capturing = TRUE
    /\ flow = [f \in Flows |-> NewFlow]
    /\ hist = [f \in Flows |-> <<>>]

NextErrors ==
    \/ Load
    \/ \E f \in DOMAIN flow : RequestOf(f, ErrorRequests)
    \/ \E f \in DOMAIN flow : ErrorOf(f, MarkerTexts)
    \/ \E f \in DOMAIN flow : Recycle(f)

SpecErrors == InitErrors /\ [][NextErrors]_vars

(***************************************************************************)
(* C17.  For an error text made of any set of markers, in either order and *)
(* in mixed case, get_error_description is the description of the earliest *)
(* class (timeout, connection refused, ssl/certificate, dns/name           *)
(* resolution, connection reset) that has a marker in the text, and        *)
(* "Network error: <text>" when there is none; the record the error hook   *)
(* delivers carries that description as response_body.                     *)
(***************************************************************************)
C17_FirstMatchWins ==
    \A f \in DOMAIN flow :
      flow[f].error # None =>
        LET text == flow[f].error[1]
        IN \A p \in MarkerTable :
             p[1] = text =>
               \A r \in Range(Outcome(f).exec.posts) :
                 r.response_body = DescriptionOf(p[2], text)

\* A text with the markers of all five classes, the latest class first, has
\* been classified and delivered.
C17_Witness ==
    \E f \in DOMAIN flow :
      /\ Done(f)
      /\ flow[f].error = Some(MarkerText(DOMAIN Markers, FALSE))
      /\ \E r \in Range(Outcome(f).exec.posts) : r.response_body = "Request timed out"

\* The positions of the steps called name in execution e, and of the steps
\* called name that ended in result.
StepsOf(e, name) == { i \in DOMAIN e.steps : e.steps[i][1] = name }
StepsAt(e, name, result) == { i \in DOMAIN e.steps : e.steps[i] = <<name, result>> }

(***************************************************************************)
(* C18.  In every hook call the pipeline runs in the order gate,           *)
(* classifier, assembler, delivery: the classifier is evaluated only after *)
(* the gate returned true, a record is assembled only after the gate and   *)
(* then the classifier returned true, a delivery is attempted only after   *)
(* the record was assembled, and when the gate returned false (or the      *)
(* classifier did) nothing later in the pipeline happens.                  *)
(***************************************************************************)
C18_PipelineOrder ==
    \A f \in DOMAIN flow :
      \A e \in Execs(f) :
        /\ \A j \in StepsOf(e, "classifier") :
             \E i \in StepsAt(e, "gate", "true") : i < j
        /\ \A k \in StepsOf(e, "base") \cup StepsOf(e, "assembler") :
             \E j \in StepsAt(e, "classifier", "true") :
               j < k /\ \E i \in StepsAt(e, "gate", "true") : i < j
        /\ \A l \in StepsOf(e, "delivery") :
             \E k \in StepsAt(e, "assembler", "done") : k < l
        /\ e.posts # <<>> => StepsOf(e, "delivery") # {}
        /\ StepsAt(e, "gate", "true") = {}
             => /\ StepsOf(e, "classifier") = {}
                /\ StepsOf(e, "assembler") = {}
                /\ e.posts = <<>>
        /\ StepsAt(e, "classifier", "true") = {}
             => StepsOf(e, "assembler") = {} /\ e.posts = <<>>

\* A call went through the whole pipeline.
C18_Witness ==
    \E f \in DOMAIN flow :
      /\ Done(f)
      /\ Outcome(f).exec.steps =
           << <<"status", "capturing=true">>, <<"gate", "true">>,
              <<"classifier", "true">>, <<"base", "returned">>,
              <<"assembler", "done">>, <<"delivery", "200">>,
              <<"send", "returned">> >>

(***************************************************************************)
(* Two flows open at a time, their hooks interleaved.                      *)
(***************************************************************************)
TwoFlows == {"flow1", "flow2"}

\* Two capturable requests that differ in URL, host and body.
FlowRequests ==
    { MkRequest("POST", "api.openai.com", JsonHeaders, Some(Bytes("{}", TRUE))),
      MkRequest("POST", "api.anthropic.com", JsonHeaders, Some(Bytes("[]", TRUE))) }
FlowResponses == { MkResponse(200, JsonHeaders, Some(Bytes("{}", TRUE))) }
FlowErrors == {"Operation Timeout"}

InitFlows ==
    /\ environ = [SUSHIFY_SESSION_DIR |-> Some("/tmp/session"),
                  LLM_PROVIDER_BASE_URL |-> None]
    /\ module = "init"
    /\ AI_BASE_URLS = <<>>
    /\ capturing \in BOOLEAN
    /\ flow = [f \in TwoFlows |-> NewFlow]
    /\ hist = [f \in TwoFlows |-> <<>>]

\* A finished flow is of no concern to any hook: the engine has let go of
\* the finished flows by the time the next outcome arrives.
OthersReleased(f) == \A g \in DOMAIN flow \ {f} : ~Done(g)

NextFlows ==
    \/ Load
    \/ \E f \in DOMAIN flow : RequestOf(f, FlowRequests)
    \/ \E f \in DOMAIN flow : OthersReleased(f) /\ ResponseOf(f, FlowResponses)
    \/ \E f \in DOMAIN flow : OthersReleased(f) /\ ErrorOf(f, FlowErrors)
    \/ \E f \in DOMAIN flow : Recycle(f)
    \/ Toggle

SpecFlows == InitFlows /\ [][NextFlows]_vars

\* The record delivered for a flow is made of that flow's request, start
\* time and outcome.
OwnRecord ==
    \A f \in DOMAIN flow :
      Done(f) =>
        \A r \in Range(Outcome(f).exec.posts) :
          /\ BaseOf(r) = BaseOfRequest(flow[f].request[1])
          /\ flow[f].metadata # None
                => \E t \in Clock : r.latency_ms = IntMs(t - flow[f].metadata[1])
          /\ Outcome(f).hook = "response"
                => r.response_status = Some(flow[f].response[1].status_code)
          /\ Outcome(f).hook = "error" => r.error_details = flow[f].error[1]

\* A step on one flow leaves every other flow and its history alone, and no
\* step changes the configuration once the module is loaded.
OwnStep ==
    /\ module = "loaded" => UNCHANGED <<environ, module, AI_BASE_URLS>>
    /\ \A f \in DOMAIN flow :
         (flow'[f] # flow[f] \/ hist'[f] # hist[f])
           => \A g \in DOMAIN flow \ {f} : flow'[g] = flow[g] /\ hist'[g] = hist[g]

(***************************************************************************)
(* C19.  With the hooks of two flows interleaved in any order, the record  *)
(* delivered for a flow has that flow's own request fields, a latency_ms   *)
(* counted from that flow's own start time and that flow's own outcome;    *)
(* a hook call on one flow changes nothing of the other flow, and the      *)
(* configuration (environment, base URL list) never changes after load.    *)
(***************************************************************************)
C19_FlowsIndependent == []OwnRecord /\ [][OwnStep]_vars

\* A record was delivered for one flow while the other flow, with another
\* request and another start time, was between its request and its outcome.
C19_Witness ==
    \E f \in DOMAIN flow : \E g \in DOMAIN flow \ {f} :
      /\ Done(f)
      /\ Outcome(f).exec.posts # <<>>
      /\ flow[f].metadata = Some(0)
      /\ flow[g].pc = "requested"
      /\ flow[g].metadata = Some(MaxClock)
      /\ flow[g].request # flow[f].request

\* The hook call a step adds to the history of flow f.
NewCall(f) == hist'[f][Len(hist'[f])]

\* The bodies of the request and of the response of call c decode as text.
Decodable(c) ==
    /\ c.arg.request[1].content # None => c.arg.request[1].content[1].decodable
    /\ (c.arg.response # None /\ c.arg.response[1].content # None)
         => c.arg.response[1].content[1].decodable

(***************************************************************************)
(* C20.  The capture decision is taken from the toggle as it is when the   *)
(* outcome hook runs: a request hook issues no status query and no         *)
(* delivery; every response and every error hook issues exactly one status *)
(* query, whatever the request; an outcome hook that runs while the toggle *)
(* is off delivers nothing, and one that runs while the toggle is on and   *)
(* is told so delivers the record of an eligible flow, in both cases       *)
(* whatever the toggle was when the request was observed.                  *)
(***************************************************************************)
C20_DecisionAtOutcome ==
    [][\A f \in DOMAIN flow :
         Len(hist'[f]) > Len(hist[f]) =>
           LET c == NewCall(f)
               e == c.exec
           IN /\ c.hook = "request" => e.gets = 0 /\ e.posts = <<>>
              /\ c.hook \in {"response", "error"} =>
                   /\ e.gets = 1
                   /\ ~capturing => e.posts = <<>>
                   /\ (/\ capturing
                       /\ HasStep(e, "status", "capturing=true")
                       /\ should_capture_request(c.arg.request[1])
                       /\ Decodable(c))
                      => Len(e.posts) = 1]_vars

====
